---- MODULE Spec2Model ----
(***************************************************************************)
(* Model of src/src/sync.rs: SyncFence (a native GL sync object bound to   *)
(* its context), LinearSyncFence (the prototype that must be consumed),    *)
(* and the free functions that create, wait for and delete a fence.        *)
(*                                                                         *)
(* The driver is a test double: every driver call is appended to the log   *)
(* of the handle it targets (calls) and to the trace of the operation that *)
(* issued it (lastOp.trace).  Every public function of the file is one     *)
(* action; a destructor that the function runs on its own locals is part   *)
(* of that action.                                                         *)
(***************************************************************************)
EXTENDS Integers, Sequences, FiniteSets, TLC

(***************************************************************************)
(* Bounds                                                                  *)
(***************************************************************************)
\* number of fences created in one behaviour
MaxFences == 1
\* context versions range over major 2..MaxMajor, minor 0..MaxMinor
MaxMajor == 3
MaxMinor == 2

Contexts == {"ctxA", "ctxB"}
Slots == 1..MaxFences
Handles == 1..MaxFences
\* Option<GLsync>: 0 is None, h > 0 is Some(h)
None == 0

Apis == {"Gl", "GlEs"}
Versions == [api : Apis, major : 2..MaxMajor, minor : 0..MaxMinor]
Version(api, major, minor) == [api |-> api, major |-> major, minor |-> minor]

\* what a CommandContext exposes to this file: version and the two extension flags
CtxInfos == [version : Versions, gl_arb_sync : BOOLEAN, gl_apple_sync : BOOLEAN]

\* the contexts the fences live in: one per way through the capability test
\* (desktop version, ES version, ARB flag with the Apple flag, Apple flag only, nothing)
FenceCtxInfos ==
    { [version |-> Version("Gl", 3, 2), gl_arb_sync |-> FALSE, gl_apple_sync |-> FALSE],
      [version |-> Version("GlEs", 3, 0), gl_arb_sync |-> FALSE, gl_apple_sync |-> FALSE],
      [version |-> Version("Gl", 3, 0), gl_arb_sync |-> TRUE, gl_apple_sync |-> TRUE],
      [version |-> Version("Gl", 3, 1), gl_arb_sync |-> FALSE, gl_apple_sync |-> TRUE],
      [version |-> Version("GlEs", 2, 0), gl_arb_sync |-> FALSE, gl_apple_sync |-> FALSE] }

\* the second context: core, Apple only or nothing
OtherCtxInfos ==
    { [version |-> Version("Gl", 3, 2), gl_arb_sync |-> FALSE, gl_apple_sync |-> FALSE],
      [version |-> Version("Gl", 3, 1), gl_arb_sync |-> FALSE, gl_apple_sync |-> TRUE],
      [version |-> Version("GlEs", 2, 0), gl_arb_sync |-> FALSE, gl_apple_sync |-> FALSE] }

(***************************************************************************)
(* version >= &Version(api, major, minor): versions of different APIs are  *)
(* not comparable, so >= between them is false.                            *)
(***************************************************************************)
VersionGe(v, w) ==
    /\ v.api = w.api
    /\ \/ v.major > w.major
       \/ v.major = w.major /\ v.minor >= w.minor

(***************************************************************************)
(* 64-bit unsigned arithmetic on four 16-bit limbs, least significant      *)
(* first; multiplication wraps modulo 2^64 as a u64 product does.          *)
(***************************************************************************)
Limb == 65536
U64(n) == <<n % Limb, (n \div Limb) % Limb, 0, 0>>
U64Mul(a, k) ==
    LET p1 == a[1] * k
        p2 == a[2] * k + (p1 \div Limb)
        p3 == a[3] * k + (p2 \div Limb)
        p4 == a[4] * k + (p3 \div Limb)
    IN  <<p1 % Limb, p2 % Limb, p3 % Limb, p4 % Limb>>

\* whether the u64 product a * k leaves the 64 bits
U64MulOverflows(a, k) ==
    LET p1 == a[1] * k
        p2 == a[2] * k + (p1 \div Limb)
        p3 == a[3] * k + (p2 \div Limb)
        p4 == a[4] * k + (p3 \div Limb)
    IN  p4 \div Limb # 0

\* the literal 0 passed as timeout of the first query
ZeroTimeout == U64(0)

\* the same product in an integer of 32 bits
U32Mul(a, k) == <<U64Mul(a, k)[1], U64Mul(a, k)[2], 0, 0>>
OneYearTimeout_U32 ==
    U32Mul(U32Mul(U32Mul(U32Mul(U32Mul(U64(365), 24), 3600), 1000), 1000), 1000)

\* 365 * 24 * 3600 * 1000 * 1000 * 1000, evaluated left to right in u64
OneYearTimeout ==
    U64Mul(U64Mul(U64Mul(U64Mul(U64Mul(U64(365), 24), 3600), 1000), 1000), 1000)

\* gl::SYNC_FLUSH_COMMANDS_BIT and gl::SYNC_FLUSH_COMMANDS_BIT_APPLE
SYNC_FLUSH_COMMANDS_BIT == 1

\* results of glClientWaitSync
WaitResults == {"ALREADY_SIGNALED", "CONDITION_SATISFIED", "TIMEOUT_EXPIRED", "WAIT_FAILED"}

VARIABLES
    contexts,   \* context -> its version and extension flags
    linear,     \* slot -> the LinearSyncFence created k-th
    sync,       \* slot -> the SyncFence made from that prototype
    nextHandle, \* next GLsync value the driver returns
    calls,      \* handle -> driver calls issued on it, in order
    thread,     \* "running", "panicking" (unwinding) or "aborted"
    lastOp,     \* the operation that ran last and the calls it issued
    origin,     \* slot -> the function that created the fence of that slot
    probe       \* call-set each copy of the capability test selected, "-" before

vars == <<contexts, linear, sync, nextHandle, calls, thread, lastOp, origin, probe>>

(***************************************************************************)
(* The driver double.  d = [calls, trace] is threaded through a handler.   *)
(***************************************************************************)
\* the log of a handle keeps the call, its call-set, the current context and the flags
Logged(e) ==
    IF e.call = "wait"
    THEN [call |-> e.call, set |-> e.set, ctx |-> e.ctx, flags |-> e.flags]
    ELSE [call |-> e.call, set |-> e.set, ctx |-> e.ctx]

Emit(d, e) ==
    [calls |-> IF e.call \in {"create", "wait", "delete"} /\ e.h \in DOMAIN d.calls
               THEN [d.calls EXCEPT ![e.h] = Append(@, Logged(e))]
               ELSE d.calls,
     trace |-> Append(d.trace, e)]

\* context.make_current(): the returned CommandContext is that of ctx
make_current(d, ctx) ==
    Emit(d, [call |-> "make_current", ctx |-> ctx])

\* ctxt.gl.FenceSync / FenceSyncAPPLE: the driver returns the handle h
FenceSync(d, set, ctx, h) ==
    Emit(d, [call |-> "create", set |-> set, ctx |-> ctx, h |-> h])

\* ctxt.gl.ClientWaitSync / ClientWaitSyncAPPLE(fence, flags, timeout) -> result
ClientWaitSync(d, set, ctx, h, flags, timeout, result) ==
    Emit(d, [call |-> "wait", set |-> set, ctx |-> ctx, h |-> h,
             flags |-> flags, timeout |-> timeout, result |-> result])

\* ctxt.gl.DeleteSync / DeleteSyncAPPLE(fence)
DeleteSync(d, set, ctx, h) ==
    Emit(d, [call |-> "delete", set |-> set, ctx |-> ctx, h |-> h])

\* the destructor of a prototype holding id, and what became of its assertion
AssertEvent(d, id, result) ==
    Emit(d, [call |-> "drop_linear", h |-> id, result |-> result])

(***************************************************************************)
(* The capability test, as written at each of its four places.             *)
(***************************************************************************)
\* the test with its last branch creating through the Apple calls instead of None
CreateCallSet_NoNone(info) ==
    IF \/ VersionGe(info.version, Version("Gl", 3, 2))
       \/ VersionGe(info.version, Version("GlEs", 3, 0))
       \/ info.gl_arb_sync
    THEN "core"
    ELSE "apple"

CreateCallSet(info) ==
    IF \/ VersionGe(info.version, Version("Gl", 3, 2))
       \/ VersionGe(info.version, Version("GlEs", 3, 0))
       \/ info.gl_arb_sync
    THEN "core"
    ELSE IF info.gl_apple_sync THEN "apple" ELSE "none"

FirstWaitCallSet(info) ==
    IF \/ VersionGe(info.version, Version("Gl", 3, 2))
       \/ VersionGe(info.version, Version("GlEs", 3, 0))
       \/ info.gl_arb_sync
    THEN "core"
    ELSE IF info.gl_apple_sync THEN "apple" ELSE "none"

SecondWaitCallSet(info) ==
    IF \/ VersionGe(info.version, Version("Gl", 3, 2))
       \/ VersionGe(info.version, Version("GlEs", 3, 0))
       \/ info.gl_arb_sync
    THEN "core"
    ELSE IF info.gl_apple_sync THEN "apple" ELSE "none"

\* the test without its ES clause
DeleteCallSet_NoEs(info) ==
    IF \/ VersionGe(info.version, Version("Gl", 3, 2))
       \/ info.gl_arb_sync
    THEN "core"
    ELSE IF info.gl_apple_sync THEN "apple" ELSE "none"

DeleteCallSet(info) ==
    IF \/ VersionGe(info.version, Version("Gl", 3, 2))
       \/ VersionGe(info.version, Version("GlEs", 3, 0))
       \/ info.gl_arb_sync
    THEN "core"
    ELSE IF info.gl_apple_sync THEN "apple" ELSE "none"

(***************************************************************************)
(* unsafe fn delete_fence(ctxt, fence); unreachable!() panics.             *)
(***************************************************************************)
delete_fence(d, info, ctx, fence) ==
    LET set == DeleteCallSet(info)
    IN  IF set = "none"
        THEN [d |-> d, panic |-> TRUE]
        ELSE [d |-> DeleteSync(d, set, ctx, fence), panic |-> FALSE]

(***************************************************************************)
(* unsafe fn client_wait(ctxt, fence) -> GLenum.  r1 and r2 are what the   *)
(* driver answers to the first and to the second query.                    *)
(***************************************************************************)
NeedsSecondQuery(result) == result \in {"TIMEOUT_EXPIRED", "WAIT_FAILED"}

client_wait(d, info, ctx, fence, r1, r2) ==
    LET set1 == FirstWaitCallSet(info)
        set2 == SecondWaitCallSet(info)
        d1 == ClientWaitSync(d, set1, ctx, fence, 0, ZeroTimeout, r1)
    IN  IF set1 = "none"
        THEN [d |-> d, panic |-> TRUE, result |-> "-"]
        ELSE IF ~NeedsSecondQuery(r1)
        THEN [d |-> d1, panic |-> FALSE, result |-> r1]
        ELSE IF set2 = "none"
        THEN [d |-> d1, panic |-> TRUE, result |-> "-"]
        ELSE [d |-> ClientWaitSync(d1, set2, ctx, fence, SYNC_FLUSH_COMMANDS_BIT,
                                   OneYearTimeout, r2),
              panic |-> FALSE, result |-> r2]

(***************************************************************************)
(* How a handler ends: "ok", "panic" (the thread starts unwinding) or      *)
(* "abort" (a destructor panicked while the thread was unwinding).         *)
(***************************************************************************)
Outcome(bodyPanic, dropPanic) ==
    IF bodyPanic /\ dropPanic THEN "abort"
    ELSE IF bodyPanic \/ dropPanic THEN "panic"
    ELSE "ok"

(***************************************************************************)
(* impl Drop for SyncFence                                                 *)
(***************************************************************************)
\* a destructor that returns on the wrong arm of its match
SyncFence_drop_NoDelete(d, self) ==
    [d |-> d, panic |-> FALSE]

\* a destructor that deletes without making its context current
SyncFence_drop_NoMakeCurrent(d, self) ==
    IF self.id = None
    THEN [d |-> d, panic |-> FALSE]
    ELSE delete_fence(d, contexts[self.context], self.context, self.id)

SyncFence_drop(d, self) ==
    IF self.id = None
    THEN [d |-> d, panic |-> FALSE]
    ELSE delete_fence(make_current(d, self.context), contexts[self.context],
                      self.context, self.id)

(***************************************************************************)
(* impl Drop for LinearSyncFence; panicking is thread::panicking()         *)
(***************************************************************************)
\* a destructor that asserts without asking thread::panicking()
LinearSyncFence_drop_AlwaysAssert(d, id, panicking) ==
    IF id = None
    THEN [d |-> AssertEvent(d, id, "assert_ok"), panic |-> FALSE]
    ELSE [d |-> AssertEvent(d, id, "assert_failed"), panic |-> TRUE]

LinearSyncFence_drop(d, id, panicking) ==
    IF panicking
    THEN [d |-> AssertEvent(d, id, "not_evaluated"), panic |-> FALSE]
    ELSE IF id = None
    THEN [d |-> AssertEvent(d, id, "assert_ok"), panic |-> FALSE]
    ELSE [d |-> AssertEvent(d, id, "assert_failed"), panic |-> TRUE]

(***************************************************************************)
(* self.id.take() at each place: the value left in the field               *)
(***************************************************************************)
\* self.id.unwrap() in place of self.id.take().unwrap(): the field keeps its value
wait_take_Keeps(id) == id
into_sync_fence_take_Keeps(id) == id
wait_take(id) == None
into_sync_fence_take(id) == None
wait_and_drop_take(id) == None
destroy_take(id) == None

(***************************************************************************)
(* LinearSyncFence::into_sync_fence(self, facade); facade.get_context() is *)
(* ctx.  The prototype is dropped when the function returns.               *)
(***************************************************************************)
into_sync_fence(d, id, ctx) ==
    LET fence == [context |-> ctx, id |-> id]
        self_id == into_sync_fence_take(id)
        dr == LinearSyncFence_drop(d, self_id, FALSE)
        \* a panic of the prototype's destructor unwinds through the new fence
        fr == IF dr.panic THEN SyncFence_drop(dr.d, fence)
                          ELSE [d |-> dr.d, panic |-> FALSE]
    IN  [d |-> fr.d, fence |-> fence, self_id |-> self_id,
         outcome |-> Outcome(dr.panic, fr.panic)]

(***************************************************************************)
(* new_linear_sync_fence_if_supported(ctxt) and new_linear_sync_fence(ctxt)*)
(* h is the handle the driver returns; id = None is the None result.       *)
(***************************************************************************)
new_linear_sync_fence_if_supported(d, info, ctx, h) ==
    LET set == CreateCallSet(info)
    IN  IF set = "none"
        THEN [d |-> d, id |-> None]
        ELSE [d |-> FenceSync(d, set, ctx, h), id |-> h]

new_linear_sync_fence(d, info, ctx, h) ==
    [d |-> FenceSync(d, "core", ctx, h), id |-> h]

(***************************************************************************)
(* SyncFence::wait(self)                                                   *)
(***************************************************************************)
\* a match that also lets TIMEOUT_EXPIRED through
wait_result_ok_Timeout(result) ==
    result \in {"ALREADY_SIGNALED", "CONDITION_SATISFIED", "TIMEOUT_EXPIRED"}

\* a match with ALREADY_SIGNALED as its only good arm
wait_result_ok_OnlySignaled(result) == result = "ALREADY_SIGNALED"

wait_result_ok(result) == result \in {"ALREADY_SIGNALED", "CONDITION_SATISFIED"}

\* a wait that deletes the fence after the match, on the arm that returns
SyncFence_wait_DeleteAfterMatch(d, self, r1, r2) ==
    LET sync_id == self.id
        self1 == [self EXCEPT !.id = wait_take(self.id)]
        d1 == make_current(d, self.context)
        w == client_wait(d1, contexts[self.context], self.context, sync_id, r1, r2)
        del == delete_fence(w.d, contexts[self.context], self.context, sync_id)
        body == IF sync_id = None THEN [d |-> d, panic |-> TRUE]
                ELSE IF w.panic THEN [d |-> w.d, panic |-> TRUE]
                ELSE IF ~wait_result_ok(w.result) THEN [d |-> w.d, panic |-> TRUE]
                ELSE del
        dr == SyncFence_drop(body.d, self1)
    IN  [d |-> dr.d, self |-> self1, outcome |-> Outcome(body.panic, dr.panic)]

SyncFence_wait(d, self, r1, r2) ==
    LET sync_id == self.id
        self1 == [self EXCEPT !.id = wait_take(self.id)]
        d1 == make_current(d, self.context)
        w == client_wait(d1, contexts[self.context], self.context, sync_id, r1, r2)
        del == delete_fence(w.d, contexts[self.context], self.context, sync_id)
        body == IF sync_id = None THEN [d |-> d, panic |-> TRUE]
                ELSE IF w.panic THEN [d |-> w.d, panic |-> TRUE]
                ELSE IF del.panic THEN [d |-> del.d, panic |-> TRUE]
                ELSE [d |-> del.d, panic |-> ~wait_result_ok(w.result)]
        \* self goes out of scope, at the return or while unwinding
        dr == SyncFence_drop(body.d, self1)
    IN  [d |-> dr.d, self |-> self1, outcome |-> Outcome(body.panic, dr.panic)]

(***************************************************************************)
(* wait_linear_sync_fence_and_drop(fence, ctxt): the result of client_wait *)
(* is discarded.                                                           *)
(***************************************************************************)
\* the two calls of the body in the other order
wait_linear_sync_fence_and_drop_DeleteFirst(d, id, info, ctx, r1, r2) ==
    LET self_id == wait_and_drop_take(id)
        del == delete_fence(d, info, ctx, id)
        w == client_wait(del.d, info, ctx, id, r1, r2)
        body == IF id = None THEN [d |-> d, panic |-> TRUE]
                ELSE IF del.panic THEN del
                ELSE [d |-> w.d, panic |-> w.panic]
        dr == LinearSyncFence_drop(body.d, self_id, body.panic)
    IN  [d |-> dr.d, self_id |-> self_id, outcome |-> Outcome(body.panic, dr.panic)]

wait_linear_sync_fence_and_drop(d, id, info, ctx, r1, r2) ==
    LET self_id == wait_and_drop_take(id)
        w == client_wait(d, info, ctx, id, r1, r2)
        del == delete_fence(w.d, info, ctx, id)
        body == IF id = None THEN [d |-> d, panic |-> TRUE]
                ELSE IF w.panic THEN [d |-> w.d, panic |-> TRUE]
                ELSE del
        dr == LinearSyncFence_drop(body.d, self_id, body.panic)
    IN  [d |-> dr.d, self_id |-> self_id, outcome |-> Outcome(body.panic, dr.panic)]

(***************************************************************************)
(* destroy_linear_sync_fence(ctxt, fence)                                  *)
(***************************************************************************)
destroy_linear_sync_fence(d, id, info, ctx) ==
    LET self_id == destroy_take(id)
        body == IF id = None THEN [d |-> d, panic |-> TRUE]
                ELSE delete_fence(d, info, ctx, id)
        dr == LinearSyncFence_drop(body.d, self_id, body.panic)
    IN  [d |-> dr.d, self_id |-> self_id, outcome |-> Outcome(body.panic, dr.panic)]

(***************************************************************************)
(* State machine.  An action binds the result of its handler once, as the  *)
(* only element of a set.                                                  *)
(***************************************************************************)
NoLinear == [st |-> "none", id |-> None]
NoSync == [st |-> "none", id |-> None, context |-> "-"]

\* unwinding is thread::panicking() when the operation began
Op(name, slot, ctx, ret, outcome, trace) ==
    [name |-> name, slot |-> slot, ctx |-> ctx, ret |-> ret,
     outcome |-> outcome, trace |-> trace, unwinding |-> thread = "panicking"]

NoProbe == [create |-> "-", wait1 |-> "-", wait2 |-> "-", delete |-> "-"]

Init ==
    /\ contexts \in [Contexts -> FenceCtxInfos]
    /\ contexts["ctxB"] \in OtherCtxInfos
    /\ linear = [k \in Slots |-> NoLinear]
    /\ sync = [k \in Slots |-> NoSync]
    /\ nextHandle = 1
    /\ calls = [h \in Handles |-> <<>>]
    /\ thread = "running"
    /\ lastOp = Op("init", 0, "-", "-", "ok", <<>>)
    /\ origin = [k \in Slots |-> "-"]
    /\ probe = NoProbe

\* the context that was current when the driver created handle h
CreatedIn(h) == calls[h][1].ctx

\* the driver log at the start of a handler
D0 == [calls |-> calls, trace |-> <<>>]

ThreadAfter(outcome) ==
    IF outcome = "ok" THEN thread
    ELSE IF outcome = "abort" THEN "aborted"
    ELSE "panicking"

\* a destructor run on its own: its panic aborts when the thread is unwinding
DropOutcome(panic) ==
    Outcome(panic, panic /\ thread = "panicking")

\* SyncFence::new_if_supported(facade), facade.get_context() = f
NewIfSupported(f) ==
    /\ thread = "running"
    /\ \E p \in {new_linear_sync_fence_if_supported(make_current(D0, f), contexts[f],
                                                    f, nextHandle)} :
       \E b \in {into_sync_fence(p.d, p.id, f)} :
           IF p.id = None
           THEN /\ lastOp' = Op("new_if_supported", 0, f, "None", "ok", p.d.trace)
                /\ calls' = p.d.calls
                /\ UNCHANGED <<linear, sync, nextHandle, thread, origin>>
           ELSE /\ nextHandle <= MaxFences
                /\ linear' = [linear EXCEPT ![nextHandle] = [st |-> "gone", id |-> b.self_id]]
                /\ sync' = [sync EXCEPT ![nextHandle] =
                              [st |-> IF b.outcome = "ok" THEN "live" ELSE "gone",
                               id |-> b.fence.id, context |-> b.fence.context]]
                /\ nextHandle' = nextHandle + 1
                /\ origin' = [origin EXCEPT ![nextHandle] = "new_if_supported"]
                /\ calls' = b.d.calls
                /\ thread' = ThreadAfter(b.outcome)
                /\ lastOp' = Op("new_if_supported", nextHandle, f, "Some", b.outcome, b.d.trace)
    /\ UNCHANGED <<contexts, probe>>

\* SyncFence::new(facade): new_if_supported(facade).unwrap()
New(f) ==
    /\ thread = "running"
    /\ \E p \in {new_linear_sync_fence_if_supported(make_current(D0, f), contexts[f],
                                                    f, nextHandle)} :
       \E b \in {into_sync_fence(p.d, p.id, f)} :
           IF p.id = None
           THEN /\ lastOp' = Op("new", 0, f, "-", "panic", p.d.trace)
                /\ calls' = p.d.calls
                /\ thread' = ThreadAfter("panic")
                /\ UNCHANGED <<linear, sync, nextHandle, origin>>
           ELSE /\ nextHandle <= MaxFences
                /\ linear' = [linear EXCEPT ![nextHandle] = [st |-> "gone", id |-> b.self_id]]
                /\ sync' = [sync EXCEPT ![nextHandle] =
                              [st |-> IF b.outcome = "ok" THEN "live" ELSE "gone",
                               id |-> b.fence.id, context |-> b.fence.context]]
                /\ nextHandle' = nextHandle + 1
                /\ origin' = [origin EXCEPT ![nextHandle] = "new_if_supported"]
                /\ calls' = b.d.calls
                /\ thread' = ThreadAfter(b.outcome)
                /\ lastOp' = Op("new", nextHandle, f, "Some", b.outcome, b.d.trace)
    /\ UNCHANGED <<contexts, probe>>

\* new_linear_sync_fence_if_supported(ctxt), ctxt being the current context c
NewLinearIfSupported(c) ==
    /\ thread = "running"
    /\ \E p \in {new_linear_sync_fence_if_supported(D0, contexts[c], c, nextHandle)} :
           IF p.id = None
           THEN /\ lastOp' = Op("new_linear_if_supported", 0, c, "None", "ok", p.d.trace)
                /\ calls' = p.d.calls
                /\ UNCHANGED <<linear, nextHandle, origin>>
           ELSE /\ nextHandle <= MaxFences
                /\ linear' = [linear EXCEPT ![nextHandle] = [st |-> "live", id |-> p.id]]
                /\ nextHandle' = nextHandle + 1
                /\ origin' = [origin EXCEPT ![nextHandle] = "new_linear_if_supported"]
                /\ calls' = p.d.calls
                /\ lastOp' = Op("new_linear_if_supported", nextHandle, c, "Some", "ok", p.d.trace)
    /\ UNCHANGED <<contexts, sync, thread, probe>>

\* new_linear_sync_fence(ctxt)
NewLinear(c) ==
    /\ thread = "running"
    /\ nextHandle <= MaxFences
    /\ \E p \in {new_linear_sync_fence(D0, contexts[c], c, nextHandle)} :
           /\ linear' = [linear EXCEPT ![nextHandle] = [st |-> "live", id |-> p.id]]
           /\ nextHandle' = nextHandle + 1
           /\ origin' = [origin EXCEPT ![nextHandle] = "new_linear"]
           /\ calls' = p.d.calls
           /\ lastOp' = Op("new_linear", nextHandle, c, "Some", "ok", p.d.trace)
    /\ UNCHANGED <<contexts, sync, thread, probe>>

\* prototype.into_sync_fence(facade), facade.get_context() = f
IntoSyncFence(k, f) ==
    /\ thread = "running"
    /\ linear[k].st = "live"
    /\ \E b \in {into_sync_fence(D0, linear[k].id, f)} :
           /\ linear' = [linear EXCEPT ![k] = [st |-> "gone", id |-> b.self_id]]
           /\ sync' = [sync EXCEPT ![k] =
                         [st |-> IF b.outcome = "ok" THEN "live" ELSE "gone",
                          id |-> b.fence.id, context |-> b.fence.context]]
           /\ calls' = b.d.calls
           /\ thread' = ThreadAfter(b.outcome)
           /\ lastOp' = Op("into_sync_fence", k, f, "Some", b.outcome, b.d.trace)
    /\ UNCHANGED <<contexts, nextHandle, origin, probe>>

\* fence.wait(); the driver answers r1 and r2
Wait(k, r1, r2) ==
    /\ thread = "running"
    /\ sync[k].st = "live"
    /\ \E w \in {SyncFence_wait(D0, [context |-> sync[k].context, id |-> sync[k].id], r1, r2)} :
           /\ sync' = [sync EXCEPT ![k] =
                         [st |-> "gone", id |-> w.self.id, context |-> w.self.context]]
           /\ calls' = w.d.calls
           /\ thread' = ThreadAfter(w.outcome)
           /\ lastOp' = Op("wait", k, sync[k].context, "-", w.outcome, w.d.trace)
    /\ UNCHANGED <<contexts, linear, nextHandle, origin, probe>>

\* a SyncFence goes out of scope, normally or while the thread unwinds
DropSyncFence(k) ==
    /\ thread \in {"running", "panicking"}
    /\ sync[k].st = "live"
    /\ \E dr \in {SyncFence_drop(D0, [context |-> sync[k].context, id |-> sync[k].id])} :
           /\ sync' = [sync EXCEPT ![k].st = "gone"]
           /\ calls' = dr.d.calls
           /\ thread' = ThreadAfter(DropOutcome(dr.panic))
           /\ lastOp' = Op("drop_sync_fence", k, sync[k].context, "-",
                           DropOutcome(dr.panic), dr.d.trace)
    /\ UNCHANGED <<contexts, linear, nextHandle, origin, probe>>

\* a LinearSyncFence goes out of scope, normally or while the thread unwinds
DropLinear(k) ==
    /\ thread \in {"running", "panicking"}
    /\ linear[k].st = "live"
    /\ \E dr \in {LinearSyncFence_drop(D0, linear[k].id, thread = "panicking")} :
           /\ linear' = [linear EXCEPT ![k].st = "gone"]
           /\ calls' = dr.d.calls
           /\ thread' = ThreadAfter(DropOutcome(dr.panic))
           /\ lastOp' = Op("drop_linear", k, "-", "-", DropOutcome(dr.panic), dr.d.trace)
    /\ UNCHANGED <<contexts, sync, nextHandle, origin, probe>>

\* wait_linear_sync_fence_and_drop(fence, ctxt); the caller of the unsafe function
\* passes the CommandContext c in which the fence object exists
WaitLinearAndDrop(k, c, r1, r2) ==
    /\ thread = "running"
    /\ linear[k].st = "live"
    /\ c = CreatedIn(linear[k].id)
    /\ \E w \in {wait_linear_sync_fence_and_drop(D0, linear[k].id, contexts[c], c, r1, r2)} :
           /\ linear' = [linear EXCEPT ![k] = [st |-> "gone", id |-> w.self_id]]
           /\ calls' = w.d.calls
           /\ thread' = ThreadAfter(w.outcome)
           /\ lastOp' = Op("wait_linear_and_drop", k, c, "-", w.outcome, w.d.trace)
    /\ UNCHANGED <<contexts, sync, nextHandle, origin, probe>>

\* destroy_linear_sync_fence(ctxt, fence), under the same contract
DestroyLinear(k, c) ==
    /\ thread = "running"
    /\ linear[k].st = "live"
    /\ c = CreatedIn(linear[k].id)
    /\ \E w \in {destroy_linear_sync_fence(D0, linear[k].id, contexts[c], c)} :
           /\ linear' = [linear EXCEPT ![k] = [st |-> "gone", id |-> w.self_id]]
           /\ calls' = w.d.calls
           /\ thread' = ThreadAfter(w.outcome)
           /\ lastOp' = Op("destroy_linear", k, c, "-", w.outcome, w.d.trace)
    /\ UNCHANGED <<contexts, sync, nextHandle, origin, probe>>

\* the driver answers a second query only when client_wait goes on to ask one
SecondAnswers(r1) == IF NeedsSecondQuery(r1) THEN WaitResults ELSE {"-"}

Next ==
    \/ \E f \in Contexts : NewIfSupported(f)
    \/ \E f \in Contexts : New(f)
    \/ \E c \in Contexts : NewLinearIfSupported(c)
    \/ \E c \in Contexts : NewLinear(c)
    \/ \E k \in Slots, f \in Contexts : IntoSyncFence(k, f)
    \/ \E k \in Slots, r1 \in WaitResults : \E r2 \in SecondAnswers(r1) : Wait(k, r1, r2)
    \/ \E k \in Slots : DropSyncFence(k)
    \/ \E k \in Slots : DropLinear(k)
    \/ \E k \in Slots, c \in Contexts, r1 \in WaitResults : \E r2 \in SecondAnswers(r1) :
          WaitLinearAndDrop(k, c, r1, r2)
    \/ \E k \in Slots, c \in Contexts : DestroyLinear(k, c)

Spec == Init /\ [][Next]_vars

(***************************************************************************)
(* The capability test on its own: one context snapshot drawn from every   *)
(* version and flag combination, and each copy of the test applied to it.  *)
(***************************************************************************)
InitCap ==
    /\ \E info \in CtxInfos : contexts = [c \in Contexts |-> info]
    /\ linear = [k \in Slots |-> NoLinear]
    /\ sync = [k \in Slots |-> NoSync]
    /\ nextHandle = 1
    /\ calls = [h \in Handles |-> <<>>]
    /\ thread = "running"
    /\ lastOp = Op("init", 0, "-", "-", "ok", <<>>)
    /\ origin = [k \in Slots |-> "-"]
    /\ probe = NoProbe

\* what a probe leaves alone
NoFenceChange ==
    UNCHANGED <<contexts, linear, sync, nextHandle, calls, thread, lastOp, origin>>

ProbeCreate(c) ==
    /\ probe' = [probe EXCEPT !.create = CreateCallSet(contexts[c])]
    /\ NoFenceChange

ProbeFirstWait(c) ==
    /\ probe' = [probe EXCEPT !.wait1 = FirstWaitCallSet(contexts[c])]
    /\ NoFenceChange

ProbeSecondWait(c) ==
    /\ probe' = [probe EXCEPT !.wait2 = SecondWaitCallSet(contexts[c])]
    /\ NoFenceChange

ProbeDelete(c) ==
    /\ probe' = [probe EXCEPT !.delete = DeleteCallSet(contexts[c])]
    /\ NoFenceChange

NextCap ==
    \/ \E c \in Contexts : ProbeCreate(c)
    \/ \E c \in Contexts : ProbeFirstWait(c)
    \/ \E c \in Contexts : ProbeSecondWait(c)
    \/ \E c \in Contexts : ProbeDelete(c)

SpecCap == InitCap /\ [][NextCap]_vars

(***************************************************************************)
(* Definitions used by the properties                                      *)
(***************************************************************************)
CountOf(tr, call) == Len(SelectSeq(tr, LAMBDA e : e.call = call))
Creates(h) == CountOf(calls[h], "create")
Queries(h) == CountOf(calls[h], "wait")
Deletes(h) == CountOf(calls[h], "delete")
WaitsOf(tr) == SelectSeq(tr, LAMBDA e : e.call = "wait")
DriverCallsOf(tr) == SelectSeq(tr, LAMBDA e : e.call \in {"create", "wait", "delete"})

RECURSIVE SumOver(_, _)
SumOver(F(_), S) ==
    IF S = {} THEN 0
    ELSE LET x == CHOOSE y \in S : TRUE IN F(x) + SumOver(F, S \ {x})

\* the handle the driver returned for the fence of slot k
HandleOf(k) == k

\* the capability policy as a table over the four inputs
CapabilityTable(info) ==
    LET v == info.version
    IN  IF \/ v.api = "Gl" /\ (v.major > 3 \/ (v.major = 3 /\ v.minor >= 2))
           \/ v.api = "GlEs" /\ v.major >= 3
           \/ info.gl_arb_sync
        THEN "core"
        ELSE IF info.gl_apple_sync THEN "apple" ELSE "none"

\* the objects that hold handle h
Holders(h) ==
    {<<"linear", k>> : k \in {j \in Slots : linear[j].st = "live" /\ linear[j].id = h}}
    \cup {<<"sync", k>> : k \in {j \in Slots : sync[j].st = "live" /\ sync[j].id = h}}

(***************************************************************************)
(* C1: a bound fence obtained from new_if_supported and dropped without    *)
(* wait gets exactly one delete call on its handle from the destructor;    *)
(* once every fence of a run that only used new_if_supported is gone, the  *)
(* driver has seen as many create calls as delete calls.                   *)
(***************************************************************************)
C1_DropDeletesOnce ==
    /\ \A k \in Slots :
          (lastOp.name = "drop_sync_fence" /\ lastOp.slot = k
              /\ origin[k] = "new_if_supported")
          => /\ CountOf(lastOp.trace, "delete") = 1
             /\ \A i \in DOMAIN lastOp.trace :
                   lastOp.trace[i].call = "delete" => lastOp.trace[i].h = HandleOf(k)
             /\ Creates(HandleOf(k)) = 1
             /\ Deletes(HandleOf(k)) = 1
    /\ (\A k \in Slots : origin[k] \in {"-", "new_if_supported"} /\ sync[k].st # "live")
       => SumOver(Creates, Handles) = SumOver(Deletes, Handles)

C1_Witness ==
    /\ lastOp.name = "drop_sync_fence"
    /\ origin[lastOp.slot] = "new_if_supported"
    /\ Queries(HandleOf(lastOp.slot)) = 0
    /\ Deletes(HandleOf(lastOp.slot)) = 1
    /\ \A k \in Slots : sync[k].st # "live"

(***************************************************************************)
(* C2: a prototype that was bound with into_sync_fence and then waited with*)
(* SyncFence::wait has had exactly one create call and exactly one delete  *)
(* call on its handle when wait is over.                                   *)
(***************************************************************************)
C2_BoundThenWaited ==
    lastOp.name = "wait"
    => /\ Creates(HandleOf(lastOp.slot)) = 1
       /\ Deletes(HandleOf(lastOp.slot)) = 1

(***************************************************************************)
(* C3: a SyncFence::wait whose two queries were both answered              *)
(* TIMEOUT_EXPIRED panics; it does not return.                             *)
(***************************************************************************)
BothTimedOut(tr) ==
    /\ Len(WaitsOf(tr)) = 2
    /\ \A i \in 1..2 : WaitsOf(tr)[i].result = "TIMEOUT_EXPIRED"

C3_TimeoutTwiceIsFatal ==
    (lastOp.name = "wait" /\ BothTimedOut(lastOp.trace))
    => /\ lastOp.outcome = "panic"
       /\ thread = "panicking"

C3_Witness ==
    /\ lastOp.name = "wait"
    /\ BothTimedOut(lastOp.trace)
    /\ WaitsOf(lastOp.trace)[1].flags = 0
    /\ WaitsOf(lastOp.trace)[2].flags = SYNC_FLUSH_COMMANDS_BIT
    /\ lastOp.outcome = "panic"

(***************************************************************************)
(* C4: in SyncFence::wait and in wait_linear_sync_fence_and_drop alike, a  *)
(* flushing second query answered TIMEOUT_EXPIRED or WAIT_FAILED ends the  *)
(* operation in a panic, never in a normal return.                         *)
(***************************************************************************)
SecondQueryFailed(tr) ==
    /\ Len(WaitsOf(tr)) = 2
    /\ WaitsOf(tr)[2].result \in {"TIMEOUT_EXPIRED", "WAIT_FAILED"}

C4_FailedWaitIsFatalEverywhere ==
    (lastOp.name \in {"wait", "wait_linear_and_drop"} /\ SecondQueryFailed(lastOp.trace))
    => lastOp.outcome # "ok"

(***************************************************************************)
(* C5: every copy of the capability test (create, first query, second      *)
(* query, delete) selects what the priority table selects for the context: *)
(* core for desktop GL >= 3.2, ES >= 3.0 or the ARB flag, else Apple for   *)
(* the Apple flag, else nothing.                                           *)
(***************************************************************************)
C5_CapabilityResolution ==
    \A c \in Contexts :
        /\ probe.create \in {"-", CapabilityTable(contexts[c])}
        /\ probe.wait1 \in {"-", CapabilityTable(contexts[c])}
        /\ probe.wait2 \in {"-", CapabilityTable(contexts[c])}
        /\ probe.delete \in {"-", CapabilityTable(contexts[c])}

C5_Witness ==
    /\ probe.create = "core"
    /\ probe.wait1 = "core"
    /\ probe.wait2 = "core"
    /\ probe.delete = "core"
    /\ contexts["ctxA"].gl_apple_sync
    /\ contexts["ctxA"].gl_arb_sync
    /\ contexts["ctxA"].version = Version("Gl", 3, 1)

(***************************************************************************)
(* C6: new_if_supported on a context the table calls unsupported returns   *)
(* None after make_current alone: no driver call, no new object, no change *)
(* to any fence or handle.                                                 *)
(***************************************************************************)
C6_UnsupportedStep ==
    (lastOp'.name = "new_if_supported"
        /\ CapabilityTable(contexts[lastOp'.ctx]) = "none")
    => /\ lastOp'.ret = "None"
       /\ lastOp'.outcome = "ok"
       /\ lastOp'.slot = 0
       /\ DriverCallsOf(lastOp'.trace) = <<>>
       /\ UNCHANGED <<linear, sync, calls, nextHandle, thread, origin>>

C6_UnsupportedReturnsNone == [][C6_UnsupportedStep]_vars

C6_Witness ==
    /\ lastOp.name = "new_if_supported"
    /\ lastOp.ret = "None"
    /\ CapabilityTable(contexts[lastOp.ctx]) = "none"
    /\ \E k \in Slots : sync[k].st = "live"

(***************************************************************************)
(* C7: every live SyncFence holds a handle, wait leaves the fence without  *)
(* its handle, and no handle ever gets more than one non-flushing first    *)
(* query or more than two queries.                                         *)
(***************************************************************************)
FirstQueries(h) ==
    Len(SelectSeq(WaitsOf(calls[h]), LAMBDA e : e.flags = 0))

C7_WaitAtMostOnce ==
    /\ \A k \in Slots : sync[k].st = "live" => sync[k].id # None
    /\ lastOp.name = "wait" => sync[lastOp.slot].id = None /\ sync[lastOp.slot].st = "gone"
    /\ \A h \in Handles : FirstQueries(h) <= 1 /\ Queries(h) <= 2

C7_Witness ==
    /\ lastOp.name = "wait"
    /\ Queries(HandleOf(lastOp.slot)) = 2
    /\ sync[lastOp.slot].id = None

(***************************************************************************)
(* C8: a prototype dropped with its handle panics on the assertion when    *)
(* the thread is not unwinding, and is dropped silently, the assertion not *)
(* evaluated, when it is; an emptied prototype never fails the assertion.  *)
(***************************************************************************)
C8_PrototypeDrop ==
    /\ lastOp.name = "drop_linear"
       => /\ Len(lastOp.trace) = 1
          /\ lastOp.trace[1].call = "drop_linear"
          /\ lastOp.trace[1].h # None
          /\ IF lastOp.unwinding
             THEN /\ lastOp.trace[1].result = "not_evaluated"
                  /\ lastOp.outcome = "ok"
                  /\ thread = "panicking"
             ELSE /\ lastOp.trace[1].result = "assert_failed"
                  /\ lastOp.outcome = "panic"
                  /\ thread = "panicking"
    /\ \A i \in DOMAIN lastOp.trace :
          (lastOp.trace[i].call = "drop_linear" /\ lastOp.trace[i].h = None)
          => lastOp.trace[i].result # "assert_failed"

C8_Witness ==
    /\ lastOp.name = "drop_linear"
    /\ lastOp.unwinding
    /\ lastOp.trace[1].h # None
    /\ lastOp.outcome = "ok"

(***************************************************************************)
(* C9: no handle is held by two objects at once, and into_sync_fence       *)
(* leaves the prototype empty with the handle in the bound fence.          *)
(***************************************************************************)
C9_ExclusiveOwner ==
    /\ \A h \in Handles : Cardinality(Holders(h)) <= 1
    /\ \A k \in Slots :
          (lastOp.name \in {"into_sync_fence", "new_if_supported", "new"} /\ lastOp.slot = k)
          => /\ linear[k].st = "gone"
             /\ linear[k].id = None
             /\ sync[k].id = HandleOf(k)

C9_Witness ==
    /\ lastOp.name = "into_sync_fence"
    /\ sync[lastOp.slot].st = "live"
    /\ Holders(HandleOf(lastOp.slot)) = {<<"sync", lastOp.slot>>}
    /\ linear[lastOp.slot].id = None

(***************************************************************************)
(* C10: the trace of SyncFence::wait is make_current of the fence's        *)
(* context, one non-flushing query with timeout 0, the flushing one-year   *)
(* query exactly when the first answer was TIMEOUT_EXPIRED or WAIT_FAILED, *)
(* and then the delete, all on the fence's handle.                         *)
(***************************************************************************)
IsQuery(e, h, flags, timeout) ==
    e.call = "wait" /\ e.h = h /\ e.flags = flags /\ e.timeout = timeout

C10_WaitCallOrder ==
    lastOp.name = "wait"
    => LET tr == lastOp.trace
           h == HandleOf(lastOp.slot)
       IN  /\ Len(tr) >= 3
           /\ tr[1].call = "make_current" /\ tr[1].ctx = sync[lastOp.slot].context
           /\ IsQuery(tr[2], h, 0, ZeroTimeout)
           /\ IF tr[2].result \in {"TIMEOUT_EXPIRED", "WAIT_FAILED"}
              THEN /\ Len(tr) = 4
                   /\ IsQuery(tr[3], h, SYNC_FLUSH_COMMANDS_BIT, OneYearTimeout)
                   /\ tr[4].call = "delete" /\ tr[4].h = h
              ELSE /\ Len(tr) = 3
                   /\ tr[3].call = "delete" /\ tr[3].h = h

(***************************************************************************)
(* C11: in new_if_supported, new, wait and the destructor of a bound fence,*)
(* every driver call (create, wait query, delete) comes after a            *)
(* make_current of the fence's context in the same operation and is issued *)
(* with that context current; the first event of an operation that issues  *)
(* a driver call is that make_current.                                     *)
(***************************************************************************)
BoundFenceOps == {"new_if_supported", "new", "wait", "drop_sync_fence"}

C11_MakeCurrentFirst ==
    lastOp.name \in BoundFenceOps
    => LET tr == lastOp.trace
       IN  /\ lastOp.slot # 0 => sync[lastOp.slot].context = lastOp.ctx
           /\ \A i \in DOMAIN tr :
                 tr[i].call \in {"create", "wait", "delete"}
                 => /\ tr[1].call = "make_current"
                    /\ \E j \in 1..(i - 1) :
                          tr[j].call = "make_current" /\ tr[j].ctx = lastOp.ctx
                    /\ tr[i].ctx = lastOp.ctx

C11_Witness ==
    /\ lastOp.name = "drop_sync_fence"
    /\ Len(lastOp.trace) = 2
    /\ lastOp.trace[1].call = "make_current"
    /\ lastOp.trace[2].call = "delete"
    /\ Queries(HandleOf(lastOp.slot)) = 0

(***************************************************************************)
(* C12: SyncFence::new and new_linear_sync_fence on a context that the     *)
(* table calls unsupported panic, issue no create call and make no fence.  *)
(***************************************************************************)
C12_UnconditionalFailsFatally ==
    (lastOp.name \in {"new", "new_linear"}
        /\ CapabilityTable(contexts[lastOp.ctx]) = "none")
    => /\ lastOp.outcome = "panic"
       /\ CountOf(lastOp.trace, "create") = 0
       /\ lastOp.slot = 0

(***************************************************************************)
(* C13: a wait on a fence made by new_if_supported (core or Apple calls)   *)
(* asks at least one query, and returns normally exactly when the last     *)
(* query it asked was answered ALREADY_SIGNALED or CONDITION_SATISFIED,    *)
(* be that the first query or the flushing one.                            *)
(***************************************************************************)
LastAnswer(tr) == WaitsOf(tr)[Len(WaitsOf(tr))].result

C13_SignaledWaitReturns ==
    (lastOp.name = "wait" /\ origin[lastOp.slot] = "new_if_supported")
    => /\ Len(WaitsOf(lastOp.trace)) \in {1, 2}
       /\ \A i \in DOMAIN WaitsOf(lastOp.trace) :
             WaitsOf(lastOp.trace)[i].set = CapabilityTable(contexts[lastOp.ctx])
       /\ LastAnswer(lastOp.trace) \in {"ALREADY_SIGNALED", "CONDITION_SATISFIED"}
          <=> (lastOp.outcome = "ok" /\ thread = "running")

C13_Witness ==
    /\ lastOp.name = "wait"
    /\ origin[lastOp.slot] = "new_if_supported"
    /\ Len(WaitsOf(lastOp.trace)) = 2
    /\ WaitsOf(lastOp.trace)[1].result = "WAIT_FAILED"
    /\ WaitsOf(lastOp.trace)[2].result = "CONDITION_SATISFIED"
    /\ WaitsOf(lastOp.trace)[2].set = "apple"
    /\ lastOp.outcome = "ok"

(***************************************************************************)
(* C14: when SyncFence::wait panics on the answer to its queries, the      *)
(* handle has got its one delete from the body of wait, after the queries: *)
(* the destructor that runs while the panic unwinds finds the id empty,    *)
(* makes no context current and issues no second delete.                   *)
(***************************************************************************)
WaitContractViolated ==
    /\ lastOp.name = "wait"
    /\ lastOp.outcome # "ok"
    /\ WaitsOf(lastOp.trace) # <<>>

C14_FailedWaitDeletesOnce ==
    WaitContractViolated
    => LET tr == lastOp.trace
           h == HandleOf(lastOp.slot)
       IN  /\ lastOp.outcome = "panic"
           /\ CountOf(tr, "delete") = 1
           /\ CountOf(tr, "make_current") = 1
           /\ tr[Len(tr)].call = "delete" /\ tr[Len(tr)].h = h
           /\ \A i \in 1..(Len(tr) - 1) : tr[i].call \in {"make_current", "wait"}
           /\ Creates(h) = 1 /\ Deletes(h) = 1
           /\ sync[lastOp.slot].id = None

C14_Witness ==
    /\ WaitContractViolated
    /\ LastAnswer(lastOp.trace) = "WAIT_FAILED"
    /\ Deletes(HandleOf(lastOp.slot)) = 1
    /\ thread = "panicking"
    /\ sync[lastOp.slot].st = "gone"

(***************************************************************************)
(* C15: every call on a handle (create, wait queries, delete) goes through *)
(* one call-set, that of the context that created the handle, whichever    *)
(* function created it; on an Apple-only context that is the Apple set.    *)
(***************************************************************************)
C15_OneCallSetPerHandle ==
    \A h \in Handles :
        calls[h] # <<>>
        => /\ \A i \in DOMAIN calls[h] : calls[h][i].set = calls[h][1].set
           /\ CapabilityTable(contexts[CreatedIn(h)]) # "none"
              => calls[h][1].set = CapabilityTable(contexts[CreatedIn(h)])

(***************************************************************************)
(* C16: every wait query and delete on a handle is issued with the context *)
(* that created the handle current, and a bound fence stores that context. *)
(***************************************************************************)
C16_CreatingContextOnly ==
    /\ \A h \in Handles : \A i \in DOMAIN calls[h] : calls[h][i].ctx = CreatedIn(h)
    /\ \A k \in Slots :
          sync[k].st = "live" => sync[k].context = CreatedIn(sync[k].id)

(***************************************************************************)
(* C17: into_sync_fence, wait_linear_sync_fence_and_drop and               *)
(* destroy_linear_sync_fence leave the prototype empty and its destructor  *)
(* does not fail; wait_linear_sync_fence_and_drop issues one or two        *)
(* queries and then exactly one delete, destroy_linear_sync_fence exactly  *)
(* one delete and no query.                                                *)
(***************************************************************************)
C17_ConsumersEmptyPrototype ==
    LET tr == lastOp.trace
        dc == DriverCallsOf(lastOp.trace)
    IN  /\ lastOp.name \in {"into_sync_fence", "wait_linear_and_drop", "destroy_linear"}
           => /\ linear[lastOp.slot].id = None
              /\ linear[lastOp.slot].st = "gone"
              /\ \A i \in DOMAIN tr :
                    tr[i].call = "drop_linear" => tr[i].result # "assert_failed"
        /\ lastOp.name = "wait_linear_and_drop"
           => /\ Len(dc) \in {2, 3}
              /\ \A i \in 1..(Len(dc) - 1) : dc[i].call = "wait"
              /\ dc[Len(dc)].call = "delete"
        /\ lastOp.name = "destroy_linear"
           => /\ Len(dc) = 1
              /\ dc[1].call = "delete"

(***************************************************************************)
(* C18: a wait ends by returning or by panicking, having issued at most    *)
(* two queries, with the flushing query (if any) as the last of them, and  *)
(* exactly one delete.                                                     *)
(***************************************************************************)
C18_WaitTerminatesBounded ==
    lastOp.name = "wait"
    => LET ws == WaitsOf(lastOp.trace)
       IN  /\ lastOp.outcome \in {"ok", "panic"}
           /\ Len(ws) <= 2
           /\ \A i \in DOMAIN ws : ws[i].flags = SYNC_FLUSH_COMMANDS_BIT => i = Len(ws)
           /\ CountOf(lastOp.trace, "delete") = 1

(***************************************************************************)
(* C19: on every handle the delete, if any, is the last driver call: no    *)
(* query and no second delete follows it, whatever the sequence of         *)
(* operations.                                                             *)
(***************************************************************************)
C19_NoCallAfterDelete ==
    \A h \in Handles :
        /\ Deletes(h) <= 1
        /\ \A i \in DOMAIN calls[h] : calls[h][i].call = "delete" => i = Len(calls[h])
        /\ \A i \in DOMAIN calls[h] : calls[h][i].call = "create" <=> i = 1

C19_Witness ==
    /\ lastOp.name = "wait_linear_and_drop"
    /\ Len(calls[HandleOf(lastOp.slot)]) = 4
    /\ Deletes(HandleOf(lastOp.slot)) = 1
    /\ \A k \in Slots : linear[k].st # "live" /\ sync[k].st # "live"

(***************************************************************************)
(* C20: the flushing query gets the timeout 365 * 24 * 3600 * 1000 * 1000  *)
(* * 1000 = 31536000000000000, no partial product of which leaves 64 bits; *)
(* the first query gets the timeout 0.                                     *)
(***************************************************************************)
\* quotient and remainder of a u64 by 10, from the most significant limb down
U64DivMod10(a) ==
    LET t4 == a[4]
        t3 == (t4 % 10) * Limb + a[3]
        t2 == (t3 % 10) * Limb + a[2]
        t1 == (t2 % 10) * Limb + a[1]
    IN  [q |-> <<t1 \div 10, t2 \div 10, t3 \div 10, t4 \div 10>>, r |-> t1 % 10]

\* the decimal digits of a u64, most significant first; no digit for 0
RECURSIVE Decimal(_)
Decimal(a) ==
    IF a = <<0, 0, 0, 0>> THEN <<>>
    ELSE Append(Decimal(U64DivMod10(a).q), U64DivMod10(a).r)

OneYearFactors == <<24, 3600, 1000, 1000, 1000>>

RECURSIVE PartialProduct(_)
PartialProduct(n) ==
    IF n = 0 THEN U64(365) ELSE U64Mul(PartialProduct(n - 1), OneYearFactors[n])

C20_OneYearTimeout ==
    \A i \in DOMAIN lastOp.trace :
        lastOp.trace[i].call = "wait"
        => IF lastOp.trace[i].flags = 0
           THEN /\ lastOp.trace[i].timeout = <<0, 0, 0, 0>>
                /\ Decimal(lastOp.trace[i].timeout) = <<>>
           ELSE /\ lastOp.trace[i].flags = SYNC_FLUSH_COMMANDS_BIT
                /\ Decimal(lastOp.trace[i].timeout)
                      = <<3, 1, 5, 3, 6, 0, 0, 0, 0, 0, 0, 0, 0, 0, 0, 0, 0>>
                /\ lastOp.trace[i].timeout = PartialProduct(5)
                /\ \A n \in 1..5 :
                      ~U64MulOverflows(PartialProduct(n - 1), OneYearFactors[n])

C20_Witness ==
    /\ lastOp.name = "wait"
    /\ Len(WaitsOf(lastOp.trace)) = 2
    /\ WaitsOf(lastOp.trace)[1].timeout = ZeroTimeout
    /\ WaitsOf(lastOp.trace)[2].timeout = OneYearTimeout
    /\ WaitsOf(lastOp.trace)[2].timeout[4] > 0

====
